---- MODULE Spec2Model ----
(***************************************************************************)
(* Model of the ERASynth Micro serial driver, class InstERASynthMicro of   *)
(* inst_ERASynthMicro.py.  The driver is single threaded and synchronous:  *)
(* one public method call is one action.  A method is an operator from the *)
(* execution state of the call (what it wrote, logged, raised, returned)   *)
(* to the execution state after it, so that a method calling another one   *)
(* is the composition of the two operators.                                *)
(*                                                                         *)
(* A Python str is the sequence of its characters, a bytes object is the   *)
(* sequence of its byte values, times are in milliseconds.                 *)
(***************************************************************************)
EXTENDS Integers, Sequences, FiniteSets, TLC

\* ---------------------------------------------------------------- bounds
\* the caller waits 0..MaxIdle steps of 40 ms between two calls
MaxIdle == 2
\* time.sleep returns 0..MaxOversleep ms late
MaxOversleep == 1
\* the integers -MaxSmallInt..MaxSmallInt are arguments of the numeric setters
MaxSmallInt == 2

\* ------------------------------------------------------- class constants
\* __SEND_DELAY = 0.1 s
SEND_DELAY == 100
\* __EOL = b'\r'
EOL == <<13>>
\* serial.Serial(..., timeout=1): a line read gives up after 1 s
TIMEOUT == 1000

\* ------------------------------------------------------------ characters
\* the printable ASCII characters; Printable[i] has the code 31 + i (the
\* grave accent, code 96, is spelled out: the lexer does not take it)
Printable ==
  <<" ","!","\"","#","$","%","&","'","(",")","*","+",",","-",".","/",
    "0","1","2","3","4","5","6","7","8","9",":",";","<","=",">","?","@",
    "A","B","C","D","E","F","G","H","I","J","K","L","M","N","O","P","Q",
    "R","S","T","U","V","W","X","Y","Z","[","\\","]","^","_","<grave>",
    "a","b","c","d","e","f","g","h","i","j","k","l","m","n","o","p","q",
    "r","s","t","u","v","w","x","y","z","{","|","}","~">>

\* ord(c) of an ASCII character
OrdOf ==
  [c \in {Printable[i] : i \in 1..Len(Printable)} \cup {"\t", "\n", "\r"} |->
     IF c = "\t" THEN 9
     ELSE IF c = "\n" THEN 10
     ELSE IF c = "\r" THEN 13
     ELSE 31 + (CHOOSE i \in 1..Len(Printable) : Printable[i] = c)]

Ord(c) == OrdOf[c]

\* the bytes that are the code of an ASCII character modelled here
IsAscii(b) == b \in {9, 10, 13} \/ (b >= 32 /\ b <= 126)

\* chr(b) of such a byte
Chr(b) ==
  IF b = 9 THEN "\t"
  ELSE IF b = 10 THEN "\n"
  ELSE IF b = 13 THEN "\r"
  ELSE Printable[b - 31]

\* str.encode(): UTF-8, one byte per ASCII character
encode(s) == [i \in 1..Len(s) |-> Ord(s[i])]

\* a lower() whose range of capitals starts after "A"
LowerChar_after_A(c) ==
  LET o == Ord(c) IN IF o > 65 /\ o <= 90 THEN Chr(o + 32) ELSE c

\* one character of str.lower()
LowerChar(c) ==
  LET o == Ord(c) IN IF o >= 65 /\ o <= 90 THEN Chr(o + 32) ELSE c

\* str.lower()
lower(s) == [i \in 1..Len(s) |-> LowerChar(s[i])]

\* --------------------------------------------------------- Python values
\* An argument is a record: its type, and its value.  An int is num; a
\* float is the rational num/den, with den = 0 for the values that are not
\* finite (num = 0: nan, num = 1: inf, num = -1: -inf); a str is chars.
PyInt(n) == [type |-> "int", num |-> n, den |-> 1, chars |-> <<>>]
PyFloat(n, d) == [type |-> "float", num |-> n, den |-> d, chars |-> <<>>]
PyStr(s) == [type |-> "str", num |-> 0, den |-> 1, chars |-> s]
PyBool(b) == [type |-> "bool", num |-> IF b THEN 1 ELSE 0, den |-> 1, chars |-> <<>>]
PyNone == [type |-> "NoneType", num |-> 0, den |-> 1, chars |-> <<>>]

\* the result of evaluating an expression: a str, or the exception raised
Value(s) == [raised |-> "none", chars |-> s]
Raised(e) == [raised |-> e, chars |-> <<>>]

\* the decimal digits of a natural number
RECURSIVE Digits(_)
Digits(n) ==
  IF n < 10 THEN <<Chr(48 + n)>>
  ELSE Digits(n \div 10) \o <<Chr(48 + (n % 10))>>

\* str(n) of an int
str_int(n) == IF n < 0 THEN <<"-">> \o Digits(0 - n) ELSE Digits(n)

\* an int(x) that rounds down
int_float_floor(n, d) == n \div d

\* int(x) of a finite float: the fraction is discarded, toward zero
int_float(n, d) == IF n < 0 THEN 0 - ((0 - n) \div d) ELSE n \div d

\* str(x) of a float: the shortest decimal that reads back as x, which for
\* the floats of the model (below 1e16, one decimal place) is the integer
\* part, a dot and one digit
str_float(n, d) ==
  IF d = 0 THEN (IF n = 0 THEN <<"n","a","n">> ELSE IF n > 0 THEN <<"i","n","f">> ELSE <<"-","i","n","f">>)
  ELSE LET a == IF n < 0 THEN 0 - n ELSE n IN
       (IF n < 0 THEN <<"-">> ELSE <<>>)
         \o Digits(a \div d) \o <<".">> \o Digits(((a % d) * 10) \div d)

\* str(v), as set_amplitude and set_modulation_am_depth apply it
str(v) ==
  IF v.type = "int" THEN str_int(v.num)
  ELSE IF v.type = "float" THEN str_float(v.num, v.den)
  ELSE IF v.type = "str" THEN v.chars
  ELSE IF v.type = "bool" THEN (IF v.num = 1 THEN <<"T","r","u","e">> ELSE <<"F","a","l","s","e">>)
  ELSE <<"N","o","n","e">>

\* a __num_to_str that applies str() to a float as well
num_to_str_float_repr(freq) ==
  IF freq.type = "float" THEN Value(str_float(freq.num, freq.den))
  ELSE IF freq.type = "int" THEN Value(str_int(freq.num))
  ELSE IF freq.type = "str" THEN Value(<<"0">>)
  ELSE Value(<<"0">>)

\* a __num_to_str that hands a text on as it is
num_to_str_keeps_text(freq) ==
  IF freq.type = "float" THEN
    IF freq.den = 0 THEN
      Raised(IF freq.num = 0 THEN "ValueError" ELSE "OverflowError")
    ELSE Value(str_int(int_float(freq.num, freq.den)))
  ELSE IF freq.type = "int" THEN Value(str_int(freq.num))
  ELSE IF freq.type = "str" THEN Value(freq.chars)
  ELSE Value(<<"0">>)

\* __num_to_str(freq); int() of nan raises ValueError, of an infinity
\* OverflowError
num_to_str(freq) ==
  IF freq.type = "float" THEN
    IF freq.den = 0 THEN
      Raised(IF freq.num = 0 THEN "ValueError" ELSE "OverflowError")
    ELSE Value(str_int(int_float(freq.num, freq.den)))
  ELSE IF freq.type = "int" THEN Value(str_int(freq.num))
  ELSE IF freq.type = "str" THEN Value(<<"0">>)
  ELSE Value(<<"0">>)

\* ----------------------------------------------------------------- state
\*   serial_link  the transport self.__serial_link: "open" or "closed", or
\*                "unset" when __init__ never assigned the attribute
\*   closes       how often close() was called on the transport
\*   tx           about the last write on the transport, see below
\*   call         the last public method called: its name (op), its
\*                argument (arg) and, for a query, the line the device
\*                answered (line)
\*   wire, log, raised, ret   what that call wrote, logged, raised and
\*                returned, see below
\*   ref          an earlier call kept for comparison: its name, argument
\*                and line, the bytes of its writes (datas), the times
\*                between its writes (gaps) and how many calls ago it was
\*                (age: 0 the last call, 1 the one before, 2 an older one)
VARIABLES serial_link, closes, tx, call, wire, log, raised, ret, ref

vars == <<serial_link, closes, tx, call, wire, log, raised, ret, ref>>

\* ------------------------------------------------------- execution state
\* The state of one call in progress:
\*   wire    the writes of the call so far, each with its bytes (data), the
\*           primitive that wrote it (prim) and, about the write before it
\*           on the transport: the primitive that made it (after, "none"
\*           when there is none), the time that one slept after writing
\*           (slept), the time it waited for a line (read), the time the
\*           caller let pass before it called again (idle), and the time
\*           between the two writes (gap), the sum of the three
\*   log     the records handed to the logging module
\*   raised  the exception the call is unwinding with, "none" if none
\*   ret     the value returned
\*   tx      about the last write on the transport: prim, slept, read, idle
\*   late    by how much time.sleep overshoots in this call
NoWrite == [prim |-> "none", slept |-> 0, read |-> 0, idle |-> 0]

\* raise e
Raise(st, e) == IF st.raised # "none" THEN st ELSE [st EXCEPT !.raised = e]

\* self.__serial_link.write(data); self.__serial_link.flush()
write(st, data, p) ==
  [st EXCEPT !.wire = Append(@, [data |-> data, prim |-> p,
                                 after |-> st.tx.prim,
                                 slept |-> st.tx.slept,
                                 read |-> st.tx.read,
                                 idle |-> st.tx.idle,
                                 gap |-> st.tx.slept + st.tx.read + st.tx.idle]),
             !.tx = [prim |-> p, slept |-> 0, read |-> 0, idle |-> 0]]

\* time.sleep(secs): suspends for secs or longer
sleep(st, ms) == [st EXCEPT !.tx.slept = @ + ms + st.late]

\* log.info(msg), log.warning(msg)
log_info(st, msg) ==
  IF st.raised # "none" THEN st
  ELSE [st EXCEPT !.log = Append(@, [level |-> "INFO", msg |-> msg])]

log_warning(st, msg) ==
  IF st.raised # "none" THEN st
  ELSE [st EXCEPT !.log = Append(@, [level |-> "WARNING", msg |-> msg])]

\* a __send_cmd that sends a CR of its own first when the last command on
\* the line was a query
send_cmd_resync(st, cmd) ==
  IF st.raised # "none" THEN st
  ELSE sleep(write(st, (IF st.tx.prim = "send_cmd_resp" THEN EOL ELSE <<>>)
                         \o encode(cmd) \o EOL, "send_cmd"),
             SEND_DELAY)

\* a __send_cmd that returns as soon as it has written
send_cmd_no_sleep(st, cmd) ==
  IF st.raised # "none" THEN st
  ELSE write(st, encode(cmd) \o EOL, "send_cmd")

\* __send_cmd(cmd)
send_cmd(st, cmd) ==
  IF st.raised # "none" THEN st
  ELSE sleep(write(st, encode(cmd) \o EOL, "send_cmd"), SEND_DELAY)

\* bytes.decode(): UTF-8; the bytes from 128 on that the device model
\* returns are not the start of any UTF-8 sequence
decode(b) ==
  IF \E i \in 1..Len(b) : ~IsAscii(b[i]) THEN Raised("UnicodeDecodeError")
  ELSE Value([i \in 1..Len(b) |-> Chr(b[i])])

\* str.strip(): leading and trailing whitespace removed
IsSpace(c) == c \in {" ", "\t", "\n", "\r"}

RECURSIVE lstrip(_)
lstrip(s) ==
  IF s # <<>> /\ IsSpace(Head(s)) THEN lstrip(Tail(s)) ELSE s

RECURSIVE rstrip(_)
rstrip(s) ==
  IF s # <<>> /\ IsSpace(s[Len(s)]) THEN rstrip(SubSeq(s, 1, Len(s) - 1))
  ELSE s

strip(s) == rstrip(lstrip(s))

\* __send_cmd_resp(cmd); line is what readline() returns: its bytes (data)
\* and the time it took (ms)
send_cmd_resp(st, cmd, line) ==
  IF st.raised # "none" THEN st
  ELSE LET w == write(st, encode(cmd) \o EOL, "send_cmd_resp")
           r == [w EXCEPT !.tx.read = line.ms]
           resp == decode(line.data)
       IN IF resp.raised # "none" THEN Raise(r, resp.raised)
          ELSE [r EXCEPT !.ret = PyStr(strip(strip(resp.chars)))]

\* --------------------------------------------------------------- methods
refresh_lcd_home(st) == send_cmd(st, <<">","G","H">>)

\* a set_rf_on that leaves the screen as it is
set_rf_on_no_refresh(st) == log_info(send_cmd(st, <<">","S","F","1">>), "Synth ON")

set_rf_on(st) ==
  refresh_lcd_home(log_info(send_cmd(st, <<">","S","F","1">>), "Synth ON"))

set_rf_off(st) ==
  refresh_lcd_home(log_info(send_cmd(st, <<">","S","F","0">>), "Synth OFF"))

set_frequency(st, freq) ==
  LET n == num_to_str(freq) IN
  IF n.raised # "none" THEN Raise(st, n.raised)
  ELSE refresh_lcd_home(log_info(send_cmd(st, <<">","F">> \o n.chars),
                                 "Frequency set to {freq} Hz"))

\* a set_amplitude that encodes its argument as set_frequency does
set_amplitude_encoded(st, ampl) ==
  LET n == num_to_str(ampl) IN
  IF n.raised # "none" THEN Raise(st, n.raised)
  ELSE refresh_lcd_home(log_info(send_cmd(st, <<">","S","A">> \o n.chars),
                                 "Amplitude set to {ampl} dBm"))

set_amplitude(st, ampl) ==
  refresh_lcd_home(log_info(send_cmd(st, <<">","S","A">> \o str(ampl)),
                            "Amplitude set to {ampl} dBm"))

set_modulation_on(st) ==
  refresh_lcd_home(log_info(send_cmd(st, <<">","S","M","1">>), "Modulation ON"))

set_modulation_off(st) ==
  refresh_lcd_home(log_info(send_cmd(st, <<">","S","M","0">>), "Modulation OFF"))

set_modulation_source_internal(st) ==
  refresh_lcd_home(log_info(send_cmd(st, <<">","S","M","I","0">>),
                            "Modulation source set to INTERNAL"))

set_modulation_source_external(st) ==
  refresh_lcd_home(log_info(send_cmd(st, <<">","S","M","I","1">>),
                            "Modulation source set to EXTERNAL"))

set_modulation_source_microphone(st) ==
  refresh_lcd_home(log_info(send_cmd(st, <<">","S","M","I","2">>),
                            "Modulation source set to MICROPHONE"))

\* source.lower() of an argument that is not a str raises AttributeError
set_modulation_source(st, source) ==
  IF source.type # "str" THEN Raise(st, "AttributeError")
  ELSE refresh_lcd_home(
         IF lower(source.chars) \in {<<"i","n","t","e","r","n","a","l">>, <<"i","n","t">>}
           THEN set_modulation_source_internal(st)
         ELSE IF lower(source.chars) \in {<<"e","x","t","e","r","n","a","l">>, <<"e","x","t">>}
           THEN set_modulation_source_external(st)
         ELSE IF lower(source.chars) \in {<<"m","i","c","r","o","p","h","o","n","e">>, <<"m","i","c">>}
           THEN set_modulation_source_microphone(st)
         ELSE log_warning(st, "Modulation source not set, incorrect source: {source.lower()}"))

set_modulation_type_am(st) ==
  refresh_lcd_home(log_info(send_cmd(st, <<">","S","M","T","0">>),
                            "Modulation type set to AM"))

set_modulation_type_fm(st) ==
  refresh_lcd_home(log_info(send_cmd(st, <<">","S","M","T","1">>),
                            "Modulation type set to FM"))

set_modulation_type_pulse(st) ==
  refresh_lcd_home(log_info(send_cmd(st, <<">","S","M","T","2">>),
                            "Modulation type set to PULSE"))

set_modulation_type(st, mod_type) ==
  IF mod_type.type # "str" THEN Raise(st, "AttributeError")
  ELSE refresh_lcd_home(
         IF lower(mod_type.chars) \in {<<"a","m">>, <<"a","m","p","l","i","t","u","d","e">>}
           THEN set_modulation_type_am(st)
         ELSE IF lower(mod_type.chars) \in {<<"f","m">>, <<"f","r","e","q","u","e","n","c","y">>}
           THEN set_modulation_type_fm(st)
         ELSE IF lower(mod_type.chars) \in {<<"p","u","l","s","e">>}
           THEN set_modulation_type_pulse(st)
         ELSE log_warning(st, "Modulation type not set, incorrect type: {mod_type.lower()}"))

set_modulation_wave_sine(st) ==
  refresh_lcd_home(log_info(send_cmd(st, <<">","S","M","W","0">>),
                            "Modulation wave type set to SINE"))

set_modulation_wave_ramp(st) ==
  refresh_lcd_home(log_info(send_cmd(st, <<">","S","M","W","1">>),
                            "Modulation wave type set to RAMP"))

set_modulation_wave_square(st) ==
  refresh_lcd_home(log_info(send_cmd(st, <<">","S","M","W","2">>),
                            "Modulation wave type set to SQUARE"))

set_modulation_wave_triangle(st) ==
  refresh_lcd_home(log_info(send_cmd(st, <<">","S","M","W","0">>),
                            "Modulation wave type set to TRIANGLE"))

set_modulation_wave_type(st, wave) ==
  IF wave.type # "str" THEN Raise(st, "AttributeError")
  ELSE refresh_lcd_home(
         IF lower(wave.chars) \in {<<"s","i","n","e">>}
           THEN set_modulation_wave_sine(st)
         ELSE IF lower(wave.chars) \in {<<"r","a","m","p">>}
           THEN set_modulation_wave_ramp(st)
         ELSE IF lower(wave.chars) \in {<<"s","q","u","a","r","e">>}
           THEN set_modulation_wave_square(st)
         ELSE IF lower(wave.chars) \in {<<"t","r","i","a","n","g","l","e">>}
           THEN set_modulation_wave_triangle(st)
         ELSE log_warning(st, "Modulation wave type not set, incorrect wave: {wave.lower()}"))

set_modulation_frequency(st, freq) ==
  LET n == num_to_str(freq) IN
  IF n.raised # "none" THEN Raise(st, n.raised)
  ELSE refresh_lcd_home(log_info(send_cmd(st, <<">","S","M","F">> \o n.chars),
                                 "Internal modulation frequency set to {freq} Hz"))

set_modulation_am_depth(st, depth) ==
  refresh_lcd_home(log_info(send_cmd(st, <<">","S","M","A">> \o str(depth)),
                            "AM modulation depth set to {depth}%"))

set_modulation_fm_deviation(st, deviation) ==
  LET n == num_to_str(deviation) IN
  IF n.raised # "none" THEN Raise(st, n.raised)
  ELSE refresh_lcd_home(log_info(send_cmd(st, <<">","S","M","F","D">> \o n.chars),
                                 "FM deviation set to {deviation} Hz"))

set_modulation_pulse_period_us(st, period) ==
  LET n == num_to_str(period) IN
  IF n.raised # "none" THEN Raise(st, n.raised)
  ELSE refresh_lcd_home(log_info(send_cmd(st, <<">","S","M","P","P">> \o n.chars),
                                 "Pulse modulation period set to {period} us"))

set_modulation_pulse_width_us(st, width) ==
  LET n == num_to_str(width) IN
  IF n.raised # "none" THEN Raise(st, n.raised)
  ELSE refresh_lcd_home(log_info(send_cmd(st, <<">","S","M","P","W">> \o n.chars),
                                 "Pulse modulation width set to {width} us"))

set_sweep_on(st) ==
  refresh_lcd_home(log_info(send_cmd(st, <<">","S","S","5">>), "Sweep ON"))

set_sweep_off(st) ==
  refresh_lcd_home(log_info(send_cmd(st, <<">","S","S","6">>), "Sweep OFF"))

set_sweep_trigger_freerun(st) ==
  refresh_lcd_home(log_info(send_cmd(st, <<">","S","S","7","0">>),
                            "Sweep trigger set to FREERUN"))

set_sweep_trigger_external(st) ==
  refresh_lcd_home(log_info(send_cmd(st, <<">","S","S","7","1">>),
                            "Sweep trigger set to EXTERNAL"))

\* a set_sweep_trigger that refreshes only through the setter it calls
set_sweep_trigger_no_refresh(st, trigger) ==
  IF trigger.type # "str" THEN Raise(st, "AttributeError")
  ELSE IF lower(trigger.chars) \in {<<"f","r","e","e">>, <<"f","r","e","e","r","u","n">>}
    THEN set_sweep_trigger_freerun(st)
  ELSE IF lower(trigger.chars) \in {<<"e","x","t">>, <<"e","x","t","e","r","n","a","l">>}
    THEN set_sweep_trigger_external(st)
  ELSE log_warning(st, "Sweep trigger not set, incorrect type: {trigger.lower()}")

set_sweep_trigger(st, trigger) ==
  IF trigger.type # "str" THEN Raise(st, "AttributeError")
  ELSE refresh_lcd_home(
         IF lower(trigger.chars) \in {<<"f","r","e","e">>, <<"f","r","e","e","r","u","n">>}
           THEN set_sweep_trigger_freerun(st)
         ELSE IF lower(trigger.chars) \in {<<"e","x","t">>, <<"e","x","t","e","r","n","a","l">>}
           THEN set_sweep_trigger_external(st)
         ELSE log_warning(st, "Sweep trigger not set, incorrect type: {trigger.lower()}"))

set_sweep_start_frequency(st, freq) ==
  LET n == num_to_str(freq) IN
  IF n.raised # "none" THEN Raise(st, n.raised)
  ELSE refresh_lcd_home(log_info(send_cmd(st, <<">","S","S","1">> \o n.chars),
                                 "Sweep START frequency set to {freq} Hz"))

set_sweep_stop_frequency(st, freq) ==
  LET n == num_to_str(freq) IN
  IF n.raised # "none" THEN Raise(st, n.raised)
  ELSE refresh_lcd_home(log_info(send_cmd(st, <<">","S","S","2">> \o n.chars),
                                 "Sweep STOP frequency set to {freq} Hz"))

set_sweep_step_frequency(st, freq) ==
  LET n == num_to_str(freq) IN
  IF n.raised # "none" THEN Raise(st, n.raised)
  ELSE refresh_lcd_home(log_info(send_cmd(st, <<">","S","S","3">> \o n.chars),
                                 "Sweep STEP frequency set to {freq} Hz"))

set_sweep_dwell_time_us(st, dwell) ==
  LET n == num_to_str(dwell) IN
  IF n.raised # "none" THEN Raise(st, n.raised)
  ELSE refresh_lcd_home(log_info(send_cmd(st, <<">","S","S","4">> \o n.chars),
                                 "Sweep DWELL time set to {dwell} us"))

set_ref_source_internal(st) ==
  refresh_lcd_home(log_info(send_cmd(st, <<">","S","R","0">>),
                            "Reference source set on INTERNAL"))

set_ref_source_external(st) ==
  refresh_lcd_home(log_info(send_cmd(st, <<">","S","R","1">>),
                            "Reference source set on EXTERNAL"))

set_ref_source(st, source) ==
  IF source.type # "str" THEN Raise(st, "AttributeError")
  ELSE refresh_lcd_home(
         IF lower(source.chars) \in {<<"i","n","t","e","r","n","a","l">>, <<"i","n","t">>}
           THEN set_ref_source_internal(st)
         ELSE IF lower(source.chars) \in {<<"e","x","t","e","r","n","a","l">>, <<"e","x","t">>}
           THEN set_ref_source_external(st)
         ELSE log_warning(st, "Reference source not set, incorrect source: {source.lower()}"))

set_vibration_on(st) ==
  refresh_lcd_home(log_info(send_cmd(st, <<">","S","V","1">>), "Vibration ON"))

\* a set_vibration_off that leaves the screen as it is
set_vibration_off_no_refresh(st) ==
  log_info(send_cmd(st, <<">","S","V","0">>), "Vibration OFF")

set_vibration_off(st) ==
  refresh_lcd_home(log_info(send_cmd(st, <<">","S","V","0">>), "Vibration OFF"))

\* a set_vibration that ignores an unknown option without a word
set_vibration_silent(st, vibration) ==
  IF vibration.type # "str" THEN Raise(st, "AttributeError")
  ELSE IF lower(vibration.chars) \in {<<"o","n">>} THEN set_vibration_on(st)
  ELSE IF lower(vibration.chars) \in {<<"o","f","f">>} THEN set_vibration_off(st)
  ELSE st

set_vibration(st, vibration) ==
  IF vibration.type # "str" THEN Raise(st, "AttributeError")
  ELSE IF lower(vibration.chars) \in {<<"o","n">>} THEN set_vibration_on(st)
  ELSE IF lower(vibration.chars) \in {<<"o","f","f">>} THEN set_vibration_off(st)
  ELSE log_warning(st, "Vibration setting not set, incorrect option: {vibration.lower()}")

vibrate_30ms(st) ==
  log_info(send_cmd(st, <<">","G","V">>), "Vibrate synth for 30ms ...bzz...")

\* the default values of the parameters
set_frequency_freq == PyFloat(1000000000, 1)
set_amplitude_ampl == PyInt(0)

\* a set_preset without the refresh of its own
set_preset_no_final_refresh(st) ==
  set_ref_source_internal(
    set_sweep_off(
      set_modulation_off(
        set_amplitude(
          set_frequency(
            set_rf_off(st),
            set_frequency_freq),
          set_amplitude_ampl))))

\* a set_preset that resets the sweep trigger too
set_preset_resets_trigger(st) ==
  refresh_lcd_home(
    set_ref_source_internal(
      set_sweep_trigger_freerun(
        set_sweep_off(
          set_modulation_off(
            set_amplitude(
              set_frequency(
                set_rf_off(st),
                set_frequency_freq),
              set_amplitude_ampl))))))

set_preset(st) ==
  refresh_lcd_home(
    set_ref_source_internal(
      set_sweep_off(
        set_modulation_off(
          set_amplitude(
            set_frequency(
              set_rf_off(st),
              set_frequency_freq),
            set_amplitude_ampl)))))

get_temperature(st, line) == send_cmd_resp(st, <<">","R","T">>, line)

get_current(st, line) == send_cmd_resp(st, <<">","R","C">>, line)

\* ---------------------------------------------------------------- inputs
\* by how much a sleep overshoots: not at all, or up to MaxOversleep ms
OnTime == {0}
Late == 0..MaxOversleep

\* a call that takes no argument, a call that reads no line
NoArg == PyNone
NoLine == [data |-> <<>>, ms |-> 0]

\* what readline() returns: a line with its terminator, a line cut by the
\* timeout, nothing at all after the timeout, a line with a byte that is
\* not text
Lines ==
  { [data |-> encode(<<" ","2","3",".","5"," ","\n">>), ms |-> 20],
    [data |-> encode(<<"0",".","4","1","\r","\n">>), ms |-> 0],
    [data |-> encode(<<"2","3">>), ms |-> TIMEOUT],
    [data |-> <<>>, ms |-> TIMEOUT],
    [data |-> <<50, 255, 10>>, ms |-> 20] }

\* the arguments of the setters of a number: ints, floats (1e9, 100.7,
\* -100.7, 20.5, -0.5, nan, inf), texts, and values of other types
NumArgs ==
  { PyInt(n) : n \in ((0 - MaxSmallInt)..MaxSmallInt) \cup {-15, 100, 1000000000} }
  \cup { PyFloat(1000000000, 1), PyFloat(1007, 10), PyFloat(-1007, 10),
         PyFloat(41, 2), PyFloat(-1, 2), PyFloat(0, 0), PyFloat(1, 0) }
  \cup { PyStr(<<"1","k">>), PyStr(<<"3",".","2","G">>), PyStr(<<"1","0","0">>), PyStr(<<"0","\r",">","S","F","1">>) }
  \cup { PyNone, PyBool(TRUE) }

\* the arguments of set_modulation_source: its aliases in three letter cases, other
\* texts, and a value that is not a str
SourceArgs ==
  { PyStr(s) : s \in
      { <<"i","n","t","e","r","n","a","l">>, <<"I","N","T","E","R","N","A","L">>, <<"I","n","t","e","r","n","a","l">>, <<"i","n","t">>, <<"I","N","T">>, <<"I","n","t">>,
        <<"e","x","t","e","r","n","a","l">>, <<"E","X","T","E","R","N","A","L">>, <<"E","x","t","e","r","n","a","l">>, <<"e","x","t">>, <<"E","X","T">>, <<"E","x","t">>,
        <<"m","i","c","r","o","p","h","o","n","e">>, <<"M","I","C","R","O","P","H","O","N","E">>, <<"M","i","c","r","o","p","h","o","n","e">>, <<"m","i","c">>, <<"M","I","C">>,
        <<"M","i","c">>, <<"o","n">>, <<"b","o","g","u","s">>, <<" ","i","n","t">>, <<>> } }
  \cup { PyNone }

\* the arguments of set_modulation_type: its aliases in three letter cases, other
\* texts, and a value that is not a str
TypeArgs ==
  { PyStr(s) : s \in
      { <<"a","m">>, <<"A","M">>, <<"A","m">>, <<"a","m","p","l","i","t","u","d","e">>, <<"A","M","P","L","I","T","U","D","E">>, <<"A","m","p","l","i","t","u","d","e">>,
        <<"f","m">>, <<"F","M">>, <<"F","m">>, <<"f","r","e","q","u","e","n","c","y">>, <<"F","R","E","Q","U","E","N","C","Y">>, <<"F","r","e","q","u","e","n","c","y">>,
        <<"p","u","l","s","e">>, <<"P","U","L","S","E">>, <<"P","u","l","s","e">>, <<"s","i","n","e">>, <<"b","o","g","u","s">>, <<"a"," ","m">>, <<>> } }
  \cup { PyNone }

\* the arguments of set_modulation_wave_type: its aliases in three letter cases, other
\* texts, and a value that is not a str
WaveArgs ==
  { PyStr(s) : s \in
      { <<"s","i","n","e">>, <<"S","I","N","E">>, <<"S","i","n","e">>, <<"r","a","m","p">>, <<"R","A","M","P">>, <<"R","a","m","p">>, <<"s","q","u","a","r","e">>,
        <<"S","Q","U","A","R","E">>, <<"S","q","u","a","r","e">>, <<"t","r","i","a","n","g","l","e">>, <<"T","R","I","A","N","G","L","E">>, <<"T","r","i","a","n","g","l","e">>,
        <<"s","i","n">>, <<"b","o","g","u","s">>, <<"a","m">>, <<>> } }
  \cup { PyNone }

\* the arguments of set_sweep_trigger: its aliases in three letter cases, other
\* texts, and a value that is not a str
TriggerArgs ==
  { PyStr(s) : s \in
      { <<"f","r","e","e">>, <<"F","R","E","E">>, <<"F","r","e","e">>, <<"f","r","e","e","r","u","n">>, <<"F","R","E","E","R","U","N">>, <<"F","r","e","e","r","u","n">>,
        <<"e","x","t">>, <<"E","X","T">>, <<"E","x","t">>, <<"e","x","t","e","r","n","a","l">>, <<"E","X","T","E","R","N","A","L">>, <<"E","x","t","e","r","n","a","l">>,
        <<"i","n","t">>, <<"b","o","g","u","s">>, <<"f","r","e","e"," ","r","u","n">>, <<>> } }
  \cup { PyNone }

\* the arguments of set_ref_source: its aliases in three letter cases, other
\* texts, and a value that is not a str
RefArgs ==
  { PyStr(s) : s \in
      { <<"i","n","t","e","r","n","a","l">>, <<"I","N","T","E","R","N","A","L">>, <<"I","n","t","e","r","n","a","l">>, <<"i","n","t">>, <<"I","N","T">>, <<"I","n","t">>,
        <<"e","x","t","e","r","n","a","l">>, <<"E","X","T","E","R","N","A","L">>, <<"E","x","t","e","r","n","a","l">>, <<"e","x","t">>, <<"E","X","T">>, <<"E","x","t">>,
        <<"m","i","c">>, <<"b","o","g","u","s">>, <<"i","n","t","e","r","n","a","l"," ">>, <<>> } }
  \cup { PyNone }

\* the arguments of set_vibration: its aliases in three letter cases, other
\* texts, and a value that is not a str
VibrationArgs ==
  { PyStr(s) : s \in
      { <<"o","n">>, <<"O","N">>, <<"O","n">>, <<"o","f","f">>, <<"O","F","F">>, <<"O","f","f">>, <<"1">>, <<"b","o","g","u","s">>, <<"o"," ","n">>,
        <<>> } }
  \cup { PyNone }

\* the default values of the other parameters
set_modulation_frequency_freq == PyFloat(1000, 1)
set_modulation_am_depth_depth == PyInt(20)
set_modulation_fm_deviation_deviation == PyFloat(1000, 1)
set_modulation_pulse_period_us_period == PyFloat(1000, 1)
set_modulation_pulse_width_us_width == PyFloat(2000, 1)
set_sweep_start_frequency_freq == PyFloat(100000000, 1)
set_sweep_stop_frequency_freq == PyFloat(200000000, 1)
set_sweep_step_frequency_freq == PyFloat(1000000, 1)
set_sweep_dwell_time_us_dwell == PyFloat(1000, 1)
set_modulation_source_source == PyStr(<<"I","n","t","e","r","n","a","l">>)
set_modulation_type_mod_type == PyStr(<<"A","M">>)
set_modulation_wave_type_wave == PyStr(<<"S","i","n","e">>)
set_sweep_trigger_trigger == PyStr(<<"f","r","e","e">>)
set_ref_source_source == PyStr(<<"I","n","t","e","r","n","a","l">>)
set_vibration_vibration == PyStr(<<"o","n">>)

\* --------------------------------------------------------------- actions
\* no call is kept
NoRef ==
  [op |-> "none", arg |-> NoArg, line |-> NoLine, datas |-> <<>>,
   gaps |-> <<>>, age |-> 0]

\* the state of a call as it starts
Enter(o) ==
  [wire |-> <<>>, log |-> <<>>, raised |-> "none", ret |-> PyNone,
   tx |-> tx, late |-> o]

\* the call of op with arg returns, or unwinds, in the execution state st
Return(op, arg, line, st) ==
  /\ call' = [op |-> op, arg |-> arg, line |-> line]
  /\ wire' = st.wire
  /\ log' = st.log
  /\ raised' = st.raised
  /\ ret' = st.ret
  /\ tx' = st.tx
  /\ ref' = IF ref.op = "none" THEN ref
            ELSE [ref EXCEPT !.age = IF @ < 2 THEN @ + 1 ELSE @]
  /\ UNCHANGED <<serial_link, closes>>

\* one action for each public method: a caller calls it, with an argument of
\* Args where it takes one, while a sleep overshoots by a time of Lates
Call_set_rf_on(Lates) ==
  \E o \in Lates :
    /\ serial_link = "open"
    /\ Return("set_rf_on", NoArg, NoLine, set_rf_on(Enter(o)))

Call_set_rf_off(Lates) ==
  \E o \in Lates :
    /\ serial_link = "open"
    /\ Return("set_rf_off", NoArg, NoLine, set_rf_off(Enter(o)))

Call_refresh_lcd_home(Lates) ==
  \E o \in Lates :
    /\ serial_link = "open"
    /\ Return("refresh_lcd_home", NoArg, NoLine, refresh_lcd_home(Enter(o)))

Call_set_frequency(Args, Lates) ==
  \E a \in Args, o \in Lates :
    /\ serial_link = "open"
    /\ Return("set_frequency", a, NoLine, set_frequency(Enter(o), a))

Call_set_amplitude(Args, Lates) ==
  \E a \in Args, o \in Lates :
    /\ serial_link = "open"
    /\ Return("set_amplitude", a, NoLine, set_amplitude(Enter(o), a))

Call_set_modulation_on(Lates) ==
  \E o \in Lates :
    /\ serial_link = "open"
    /\ Return("set_modulation_on", NoArg, NoLine, set_modulation_on(Enter(o)))

Call_set_modulation_off(Lates) ==
  \E o \in Lates :
    /\ serial_link = "open"
    /\ Return("set_modulation_off", NoArg, NoLine, set_modulation_off(Enter(o)))

Call_set_modulation_source_internal(Lates) ==
  \E o \in Lates :
    /\ serial_link = "open"
    /\ Return("set_modulation_source_internal", NoArg, NoLine, set_modulation_source_internal(Enter(o)))

Call_set_modulation_source_external(Lates) ==
  \E o \in Lates :
    /\ serial_link = "open"
    /\ Return("set_modulation_source_external", NoArg, NoLine, set_modulation_source_external(Enter(o)))

Call_set_modulation_source_microphone(Lates) ==
  \E o \in Lates :
    /\ serial_link = "open"
    /\ Return("set_modulation_source_microphone", NoArg, NoLine, set_modulation_source_microphone(Enter(o)))

Call_set_modulation_source(Args, Lates) ==
  \E a \in Args, o \in Lates :
    /\ serial_link = "open"
    /\ Return("set_modulation_source", a, NoLine, set_modulation_source(Enter(o), a))

Call_set_modulation_type_am(Lates) ==
  \E o \in Lates :
    /\ serial_link = "open"
    /\ Return("set_modulation_type_am", NoArg, NoLine, set_modulation_type_am(Enter(o)))

Call_set_modulation_type_fm(Lates) ==
  \E o \in Lates :
    /\ serial_link = "open"
    /\ Return("set_modulation_type_fm", NoArg, NoLine, set_modulation_type_fm(Enter(o)))

Call_set_modulation_type_pulse(Lates) ==
  \E o \in Lates :
    /\ serial_link = "open"
    /\ Return("set_modulation_type_pulse", NoArg, NoLine, set_modulation_type_pulse(Enter(o)))

Call_set_modulation_type(Args, Lates) ==
  \E a \in Args, o \in Lates :
    /\ serial_link = "open"
    /\ Return("set_modulation_type", a, NoLine, set_modulation_type(Enter(o), a))

Call_set_modulation_wave_sine(Lates) ==
  \E o \in Lates :
    /\ serial_link = "open"
    /\ Return("set_modulation_wave_sine", NoArg, NoLine, set_modulation_wave_sine(Enter(o)))

Call_set_modulation_wave_ramp(Lates) ==
  \E o \in Lates :
    /\ serial_link = "open"
    /\ Return("set_modulation_wave_ramp", NoArg, NoLine, set_modulation_wave_ramp(Enter(o)))

Call_set_modulation_wave_square(Lates) ==
  \E o \in Lates :
    /\ serial_link = "open"
    /\ Return("set_modulation_wave_square", NoArg, NoLine, set_modulation_wave_square(Enter(o)))

Call_set_modulation_wave_triangle(Lates) ==
  \E o \in Lates :
    /\ serial_link = "open"
    /\ Return("set_modulation_wave_triangle", NoArg, NoLine, set_modulation_wave_triangle(Enter(o)))

Call_set_modulation_wave_type(Args, Lates) ==
  \E a \in Args, o \in Lates :
    /\ serial_link = "open"
    /\ Return("set_modulation_wave_type", a, NoLine, set_modulation_wave_type(Enter(o), a))

Call_set_modulation_frequency(Args, Lates) ==
  \E a \in Args, o \in Lates :
    /\ serial_link = "open"
    /\ Return("set_modulation_frequency", a, NoLine, set_modulation_frequency(Enter(o), a))

Call_set_modulation_am_depth(Args, Lates) ==
  \E a \in Args, o \in Lates :
    /\ serial_link = "open"
    /\ Return("set_modulation_am_depth", a, NoLine, set_modulation_am_depth(Enter(o), a))

Call_set_modulation_fm_deviation(Args, Lates) ==
  \E a \in Args, o \in Lates :
    /\ serial_link = "open"
    /\ Return("set_modulation_fm_deviation", a, NoLine, set_modulation_fm_deviation(Enter(o), a))

Call_set_modulation_pulse_period_us(Args, Lates) ==
  \E a \in Args, o \in Lates :
    /\ serial_link = "open"
    /\ Return("set_modulation_pulse_period_us", a, NoLine, set_modulation_pulse_period_us(Enter(o), a))

Call_set_modulation_pulse_width_us(Args, Lates) ==
  \E a \in Args, o \in Lates :
    /\ serial_link = "open"
    /\ Return("set_modulation_pulse_width_us", a, NoLine, set_modulation_pulse_width_us(Enter(o), a))

Call_set_sweep_on(Lates) ==
  \E o \in Lates :
    /\ serial_link = "open"
    /\ Return("set_sweep_on", NoArg, NoLine, set_sweep_on(Enter(o)))

Call_set_sweep_off(Lates) ==
  \E o \in Lates :
    /\ serial_link = "open"
    /\ Return("set_sweep_off", NoArg, NoLine, set_sweep_off(Enter(o)))

Call_set_sweep_trigger_freerun(Lates) ==
  \E o \in Lates :
    /\ serial_link = "open"
    /\ Return("set_sweep_trigger_freerun", NoArg, NoLine, set_sweep_trigger_freerun(Enter(o)))

Call_set_sweep_trigger_external(Lates) ==
  \E o \in Lates :
    /\ serial_link = "open"
    /\ Return("set_sweep_trigger_external", NoArg, NoLine, set_sweep_trigger_external(Enter(o)))

Call_set_sweep_trigger(Args, Lates) ==
  \E a \in Args, o \in Lates :
    /\ serial_link = "open"
    /\ Return("set_sweep_trigger", a, NoLine, set_sweep_trigger(Enter(o), a))

Call_set_sweep_start_frequency(Args, Lates) ==
  \E a \in Args, o \in Lates :
    /\ serial_link = "open"
    /\ Return("set_sweep_start_frequency", a, NoLine, set_sweep_start_frequency(Enter(o), a))

Call_set_sweep_stop_frequency(Args, Lates) ==
  \E a \in Args, o \in Lates :
    /\ serial_link = "open"
    /\ Return("set_sweep_stop_frequency", a, NoLine, set_sweep_stop_frequency(Enter(o), a))

Call_set_sweep_step_frequency(Args, Lates) ==
  \E a \in Args, o \in Lates :
    /\ serial_link = "open"
    /\ Return("set_sweep_step_frequency", a, NoLine, set_sweep_step_frequency(Enter(o), a))

Call_set_sweep_dwell_time_us(Args, Lates) ==
  \E a \in Args, o \in Lates :
    /\ serial_link = "open"
    /\ Return("set_sweep_dwell_time_us", a, NoLine, set_sweep_dwell_time_us(Enter(o), a))

Call_set_ref_source_internal(Lates) ==
  \E o \in Lates :
    /\ serial_link = "open"
    /\ Return("set_ref_source_internal", NoArg, NoLine, set_ref_source_internal(Enter(o)))

Call_set_ref_source_external(Lates) ==
  \E o \in Lates :
    /\ serial_link = "open"
    /\ Return("set_ref_source_external", NoArg, NoLine, set_ref_source_external(Enter(o)))

Call_set_ref_source(Args, Lates) ==
  \E a \in Args, o \in Lates :
    /\ serial_link = "open"
    /\ Return("set_ref_source", a, NoLine, set_ref_source(Enter(o), a))

Call_set_vibration_on(Lates) ==
  \E o \in Lates :
    /\ serial_link = "open"
    /\ Return("set_vibration_on", NoArg, NoLine, set_vibration_on(Enter(o)))

Call_set_vibration_off(Lates) ==
  \E o \in Lates :
    /\ serial_link = "open"
    /\ Return("set_vibration_off", NoArg, NoLine, set_vibration_off(Enter(o)))

Call_set_vibration(Args, Lates) ==
  \E a \in Args, o \in Lates :
    /\ serial_link = "open"
    /\ Return("set_vibration", a, NoLine, set_vibration(Enter(o), a))

Call_vibrate_30ms(Lates) ==
  \E o \in Lates :
    /\ serial_link = "open"
    /\ Return("vibrate_30ms", NoArg, NoLine, vibrate_30ms(Enter(o)))

Call_set_preset(Lates) ==
  \E o \in Lates :
    /\ serial_link = "open"
    /\ Return("set_preset", NoArg, NoLine, set_preset(Enter(o)))

Call_get_temperature(Answers, Lates) ==
  \E l \in Answers, o \in Lates :
    /\ serial_link = "open"
    /\ Return("get_temperature", NoArg, l, get_temperature(Enter(o), l))

Call_get_current(Answers, Lates) ==
  \E l \in Answers, o \in Lates :
    /\ serial_link = "open"
    /\ Return("get_current", NoArg, l, get_current(Enter(o), l))

\* the caller lets 40 ms pass before its next call (the smoke test waits
\* for the operator between two groups of calls)
Idle ==
  /\ serial_link = "open"
  /\ tx.idle < 40 * MaxIdle
  /\ tx' = [tx EXCEPT !.idle = @ + 40]
  /\ UNCHANGED <<serial_link, closes, call, wire, log, raised, ret, ref>>

\* the last call is kept, to compare later calls with it
Remember ==
  /\ serial_link = "open"
  /\ call.op \notin {"__init__", "__del__"}
  /\ ref.op # call.op \/ ref.arg # call.arg \/ ref.line # call.line \/ ref.age # 0
  /\ ref' = [op |-> call.op, arg |-> call.arg, line |-> call.line,
             datas |-> [i \in 1..Len(wire) |-> wire[i].data],
             gaps |-> [i \in 1..(Len(wire) - 1) |-> wire[i + 1].gap],
             age |-> 0]
  /\ UNCHANGED <<serial_link, closes, tx, call, wire, log, raised, ret>>

\* __del__(), when the driver is discarded; on a driver whose __init__ did
\* not open the port the attribute is missing and the access raises
Del ==
  /\ call.op # "__del__"
  /\ call' = [op |-> "__del__", arg |-> NoArg, line |-> NoLine]
  /\ wire' = <<>>
  /\ log' = <<>>
  /\ ret' = PyNone
  /\ IF serial_link = "unset"
       THEN /\ raised' = "AttributeError"
            /\ UNCHANGED <<serial_link, closes>>
       ELSE /\ raised' = "none"
            /\ serial_link' = "closed"
            /\ closes' = closes + 1
  /\ UNCHANGED <<tx, ref>>

\* the state after __init__(): the port is open, or serial.Serial raised
\* SerialException, the error was logged and sys.exit() raised SystemExit
Init ==
  /\ \/ /\ serial_link = "open"
        /\ log = <<>>
        /\ raised = "none"
     \/ /\ serial_link = "unset"
        /\ log = <<[level |-> "ERROR", msg |-> "ERROR: Unable to open serial port {port}"]>>
        /\ raised = "SystemExit"
  /\ closes = 0
  /\ tx = NoWrite
  /\ call = [op |-> "__init__", arg |-> NoArg, line |-> NoLine]
  /\ wire = <<>>
  /\ ret = PyNone
  /\ ref = NoRef

\* every argument, every sleep exactly on time
Next ==
  \/ Call_set_rf_on(OnTime)
  \/ Call_set_rf_off(OnTime)
  \/ Call_refresh_lcd_home(OnTime)
  \/ Call_set_frequency(NumArgs \cup {set_frequency_freq}, OnTime)
  \/ Call_set_amplitude(NumArgs \cup {set_amplitude_ampl}, OnTime)
  \/ Call_set_modulation_on(OnTime)
  \/ Call_set_modulation_off(OnTime)
  \/ Call_set_modulation_source_internal(OnTime)
  \/ Call_set_modulation_source_external(OnTime)
  \/ Call_set_modulation_source_microphone(OnTime)
  \/ Call_set_modulation_source(SourceArgs \cup {set_modulation_source_source}, OnTime)
  \/ Call_set_modulation_type_am(OnTime)
  \/ Call_set_modulation_type_fm(OnTime)
  \/ Call_set_modulation_type_pulse(OnTime)
  \/ Call_set_modulation_type(TypeArgs \cup {set_modulation_type_mod_type}, OnTime)
  \/ Call_set_modulation_wave_sine(OnTime)
  \/ Call_set_modulation_wave_ramp(OnTime)
  \/ Call_set_modulation_wave_square(OnTime)
  \/ Call_set_modulation_wave_triangle(OnTime)
  \/ Call_set_modulation_wave_type(WaveArgs \cup {set_modulation_wave_type_wave}, OnTime)
  \/ Call_set_modulation_frequency(NumArgs \cup {set_modulation_frequency_freq}, OnTime)
  \/ Call_set_modulation_am_depth(NumArgs \cup {set_modulation_am_depth_depth}, OnTime)
  \/ Call_set_modulation_fm_deviation(NumArgs \cup {set_modulation_fm_deviation_deviation}, OnTime)
  \/ Call_set_modulation_pulse_period_us(NumArgs \cup {set_modulation_pulse_period_us_period}, OnTime)
  \/ Call_set_modulation_pulse_width_us(NumArgs \cup {set_modulation_pulse_width_us_width}, OnTime)
  \/ Call_set_sweep_on(OnTime)
  \/ Call_set_sweep_off(OnTime)
  \/ Call_set_sweep_trigger_freerun(OnTime)
  \/ Call_set_sweep_trigger_external(OnTime)
  \/ Call_set_sweep_trigger(TriggerArgs \cup {set_sweep_trigger_trigger}, OnTime)
  \/ Call_set_sweep_start_frequency(NumArgs \cup {set_sweep_start_frequency_freq}, OnTime)
  \/ Call_set_sweep_stop_frequency(NumArgs \cup {set_sweep_stop_frequency_freq}, OnTime)
  \/ Call_set_sweep_step_frequency(NumArgs \cup {set_sweep_step_frequency_freq}, OnTime)
  \/ Call_set_sweep_dwell_time_us(NumArgs \cup {set_sweep_dwell_time_us_dwell}, OnTime)
  \/ Call_set_ref_source_internal(OnTime)
  \/ Call_set_ref_source_external(OnTime)
  \/ Call_set_ref_source(RefArgs \cup {set_ref_source_source}, OnTime)
  \/ Call_set_vibration_on(OnTime)
  \/ Call_set_vibration_off(OnTime)
  \/ Call_set_vibration(VibrationArgs \cup {set_vibration_vibration}, OnTime)
  \/ Call_vibrate_30ms(OnTime)
  \/ Call_set_preset(OnTime)
  \/ Call_get_temperature(Lines, OnTime)
  \/ Call_get_current(Lines, OnTime)
  \/ Del

Spec == Init /\ [][Next]_vars

\* the default arguments, sleeps that overshoot and a caller that waits
NextTimed ==
  \/ Call_set_rf_on(Late)
  \/ Call_set_rf_off(Late)
  \/ Call_refresh_lcd_home(Late)
  \/ Call_set_frequency({set_frequency_freq}, Late)
  \/ Call_set_amplitude({set_amplitude_ampl}, Late)
  \/ Call_set_modulation_on(Late)
  \/ Call_set_modulation_off(Late)
  \/ Call_set_modulation_source_internal(Late)
  \/ Call_set_modulation_source_external(Late)
  \/ Call_set_modulation_source_microphone(Late)
  \/ Call_set_modulation_source({set_modulation_source_source, PyStr(<<"b","o","g","u","s">>)}, Late)
  \/ Call_set_modulation_type_am(Late)
  \/ Call_set_modulation_type_fm(Late)
  \/ Call_set_modulation_type_pulse(Late)
  \/ Call_set_modulation_type({set_modulation_type_mod_type, PyStr(<<"b","o","g","u","s">>)}, Late)
  \/ Call_set_modulation_wave_sine(Late)
  \/ Call_set_modulation_wave_ramp(Late)
  \/ Call_set_modulation_wave_square(Late)
  \/ Call_set_modulation_wave_triangle(Late)
  \/ Call_set_modulation_wave_type({set_modulation_wave_type_wave, PyStr(<<"b","o","g","u","s">>)}, Late)
  \/ Call_set_modulation_frequency({set_modulation_frequency_freq}, Late)
  \/ Call_set_modulation_am_depth({set_modulation_am_depth_depth}, Late)
  \/ Call_set_modulation_fm_deviation({set_modulation_fm_deviation_deviation}, Late)
  \/ Call_set_modulation_pulse_period_us({set_modulation_pulse_period_us_period}, Late)
  \/ Call_set_modulation_pulse_width_us({set_modulation_pulse_width_us_width}, Late)
  \/ Call_set_sweep_on(Late)
  \/ Call_set_sweep_off(Late)
  \/ Call_set_sweep_trigger_freerun(Late)
  \/ Call_set_sweep_trigger_external(Late)
  \/ Call_set_sweep_trigger({set_sweep_trigger_trigger, PyStr(<<"b","o","g","u","s">>)}, Late)
  \/ Call_set_sweep_start_frequency({set_sweep_start_frequency_freq}, Late)
  \/ Call_set_sweep_stop_frequency({set_sweep_stop_frequency_freq}, Late)
  \/ Call_set_sweep_step_frequency({set_sweep_step_frequency_freq}, Late)
  \/ Call_set_sweep_dwell_time_us({set_sweep_dwell_time_us_dwell}, Late)
  \/ Call_set_ref_source_internal(Late)
  \/ Call_set_ref_source_external(Late)
  \/ Call_set_ref_source({set_ref_source_source, PyStr(<<"b","o","g","u","s">>)}, Late)
  \/ Call_set_vibration_on(Late)
  \/ Call_set_vibration_off(Late)
  \/ Call_set_vibration({set_vibration_vibration, PyStr(<<"b","o","g","u","s">>)}, Late)
  \/ Call_vibrate_30ms(Late)
  \/ Call_set_preset(Late)
  \/ Call_get_temperature(Lines, Late)
  \/ Call_get_current(Lines, Late)
  \/ Idle
  \/ Del

SpecTimed == Init /\ [][NextTimed]_vars

\* a few calls, a caller that waits, and any call kept for comparison
NextTwice ==
  \/ Call_set_rf_on(OnTime)
  \/ Call_refresh_lcd_home(OnTime)
  \/ Call_set_frequency({set_frequency_freq, PyFloat(1007, 10), PyStr(<<"1","k">>)}, OnTime)
  \/ Call_set_amplitude({set_amplitude_ampl, PyInt(-15)}, OnTime)
  \/ Call_set_modulation_source({PyStr(<<"i","n","t">>), PyStr(<<"b","o","g","u","s">>)}, OnTime)
  \/ Call_set_vibration({PyStr(<<"O","N">>), PyStr(<<"b","o","g","u","s">>)}, OnTime)
  \/ Call_vibrate_30ms(OnTime)
  \/ Call_set_preset(OnTime)
  \/ Call_get_temperature(Lines, OnTime)
  \/ Idle
  \/ Remember
  \/ Del

SpecTwice == Init /\ [][NextTwice]_vars

\* ------------------------------------------------------------ properties
\* The properties are stated on the state a call leaves: call names the
\* method and its argument, wire is what the call wrote.

\* the bytes of the command c on the wire: its characters and one CR
Sent(c) == encode(c) \o <<13>>

\* the bytes b begin with the bytes p
StartsWith(b, p) == Len(b) >= Len(p) /\ SubSeq(b, 1, Len(p)) = p

\* the text s is the lower case text a, in any letter case
InAnyCase(s, a) ==
  /\ Len(s) = Len(a)
  /\ \A i \in 1..Len(a) :
       \/ s[i] = a[i]
       \/ Ord(a[i]) \in 97..122 /\ Ord(s[i]) = Ord(a[i]) - 32

\* the command table: the code of each direct setter, before its parameter
\* if it has one
CodeOf ==
  [ set_rf_on |-> <<">","S","F","1">>,
    set_rf_off |-> <<">","S","F","0">>,
    set_frequency |-> <<">","F">>,
    set_amplitude |-> <<">","S","A">>,
    set_modulation_on |-> <<">","S","M","1">>,
    set_modulation_off |-> <<">","S","M","0">>,
    set_modulation_source_internal |-> <<">","S","M","I","0">>,
    set_modulation_source_external |-> <<">","S","M","I","1">>,
    set_modulation_source_microphone |-> <<">","S","M","I","2">>,
    set_modulation_type_am |-> <<">","S","M","T","0">>,
    set_modulation_type_fm |-> <<">","S","M","T","1">>,
    set_modulation_type_pulse |-> <<">","S","M","T","2">>,
    set_modulation_wave_sine |-> <<">","S","M","W","0">>,
    set_modulation_wave_ramp |-> <<">","S","M","W","1">>,
    set_modulation_wave_square |-> <<">","S","M","W","2">>,
    set_modulation_wave_triangle |-> <<">","S","M","W","0">>,
    set_modulation_frequency |-> <<">","S","M","F">>,
    set_modulation_am_depth |-> <<">","S","M","A">>,
    set_modulation_fm_deviation |-> <<">","S","M","F","D">>,
    set_modulation_pulse_period_us |-> <<">","S","M","P","P">>,
    set_modulation_pulse_width_us |-> <<">","S","M","P","W">>,
    set_sweep_on |-> <<">","S","S","5">>,
    set_sweep_off |-> <<">","S","S","6">>,
    set_sweep_trigger_freerun |-> <<">","S","S","7","0">>,
    set_sweep_trigger_external |-> <<">","S","S","7","1">>,
    set_sweep_start_frequency |-> <<">","S","S","1">>,
    set_sweep_stop_frequency |-> <<">","S","S","2">>,
    set_sweep_step_frequency |-> <<">","S","S","3">>,
    set_sweep_dwell_time_us |-> <<">","S","S","4">>,
    set_ref_source_internal |-> <<">","S","R","0">>,
    set_ref_source_external |-> <<">","S","R","1">>,
    set_vibration_on |-> <<">","S","V","1">>,
    set_vibration_off |-> <<">","S","V","0">> ]

DirectSetters == DOMAIN CodeOf

\* the command table: dispatcher, alias, code
AliasTable ==
  { <<"set_modulation_source", <<"i","n","t","e","r","n","a","l">>, <<">","S","M","I","0">>>>,
    <<"set_modulation_source", <<"i","n","t">>, <<">","S","M","I","0">>>>,
    <<"set_modulation_source", <<"e","x","t","e","r","n","a","l">>, <<">","S","M","I","1">>>>,
    <<"set_modulation_source", <<"e","x","t">>, <<">","S","M","I","1">>>>,
    <<"set_modulation_source", <<"m","i","c","r","o","p","h","o","n","e">>, <<">","S","M","I","2">>>>,
    <<"set_modulation_source", <<"m","i","c">>, <<">","S","M","I","2">>>>,
    <<"set_modulation_type", <<"a","m">>, <<">","S","M","T","0">>>>,
    <<"set_modulation_type", <<"a","m","p","l","i","t","u","d","e">>, <<">","S","M","T","0">>>>,
    <<"set_modulation_type", <<"f","m">>, <<">","S","M","T","1">>>>,
    <<"set_modulation_type", <<"f","r","e","q","u","e","n","c","y">>, <<">","S","M","T","1">>>>,
    <<"set_modulation_type", <<"p","u","l","s","e">>, <<">","S","M","T","2">>>>,
    <<"set_modulation_wave_type", <<"s","i","n","e">>, <<">","S","M","W","0">>>>,
    <<"set_modulation_wave_type", <<"r","a","m","p">>, <<">","S","M","W","1">>>>,
    <<"set_modulation_wave_type", <<"s","q","u","a","r","e">>, <<">","S","M","W","2">>>>,
    <<"set_modulation_wave_type", <<"t","r","i","a","n","g","l","e">>, <<">","S","M","W","0">>>>,
    <<"set_sweep_trigger", <<"f","r","e","e">>, <<">","S","S","7","0">>>>,
    <<"set_sweep_trigger", <<"f","r","e","e","r","u","n">>, <<">","S","S","7","0">>>>,
    <<"set_sweep_trigger", <<"e","x","t">>, <<">","S","S","7","1">>>>,
    <<"set_sweep_trigger", <<"e","x","t","e","r","n","a","l">>, <<">","S","S","7","1">>>>,
    <<"set_ref_source", <<"i","n","t","e","r","n","a","l">>, <<">","S","R","0">>>>,
    <<"set_ref_source", <<"i","n","t">>, <<">","S","R","0">>>>,
    <<"set_ref_source", <<"e","x","t","e","r","n","a","l">>, <<">","S","R","1">>>>,
    <<"set_ref_source", <<"e","x","t">>, <<">","S","R","1">>>>,
    <<"set_vibration", <<"o","n">>, <<">","S","V","1">>>>,
    <<"set_vibration", <<"o","f","f">>, <<">","S","V","0">>>> }

Dispatchers == {t[1] : t \in AliasTable}

\* the dispatchers that end with a refresh of their own
RefreshingDispatchers == Dispatchers \ {"set_vibration"}

\* the last call was a dispatcher, called with a text
DispatchedText == call.op \in Dispatchers /\ call.arg.type = "str"

\* ... with one of its aliases
Recognised ==
  /\ DispatchedText
  /\ \E t \in AliasTable : t[1] = call.op /\ InAnyCase(call.arg.chars, t[2])

\* ... with a text that is none of its aliases
Unrecognised == DispatchedText /\ ~Recognised

\* the last call returned
Returned == call.op # "__init__" /\ raised = "none"

\* the log of the last call is one warning
OneWarning == Len(log) = 1 /\ log[1].level = "WARNING"

\* C1 as claimed: a direct setter, and a dispatcher called with one of its
\* aliases, writes its own command and then exactly one '>GH'; vibrate_30ms
\* writes '>GV' alone.
C1_OneRefreshEverywhere ==
  /\ (Returned /\ (call.op \in DirectSetters \/ Recognised)) =>
       /\ Len(wire) = 2
       /\ wire[1].data # Sent(<<">","G","H">>)
       /\ wire[2].data = Sent(<<">","G","H">>)
  /\ (Returned /\ call.op = "vibrate_30ms") =>
       (Len(wire) = 1 /\ wire[1].data = Sent(<<">","G","V">>))

\* C1 as amended: a call that returns has written, for a direct setter, its
\* own command and then exactly one '>GH'; for set_vibration called with an
\* alias, the command and then exactly one '>GH'; for each other dispatcher
\* called with an alias, the command and then exactly two '>GH' (the
\* setter's and the dispatcher's own); for vibrate_30ms, '>GV' and no '>GH'.
C1_RefreshCount ==
  /\ (Returned /\ call.op \in DirectSetters) =>
       /\ Len(wire) = 2
       /\ StartsWith(wire[1].data, encode(CodeOf[call.op]))
       /\ wire[1].data # Sent(<<">","G","H">>)
       /\ wire[2].data = Sent(<<">","G","H">>)
  /\ (Returned /\ Recognised /\ call.op = "set_vibration") =>
       /\ Len(wire) = 2
       /\ wire[1].data # Sent(<<">","G","H">>)
       /\ wire[2].data = Sent(<<">","G","H">>)
  /\ (Returned /\ Recognised /\ call.op \in RefreshingDispatchers) =>
       /\ Len(wire) = 3
       /\ wire[1].data # Sent(<<">","G","H">>)
       /\ wire[2].data = Sent(<<">","G","H">>)
       /\ wire[3].data = Sent(<<">","G","H">>)
  /\ (Returned /\ call.op = "vibrate_30ms") =>
       (Len(wire) = 1 /\ wire[1].data = Sent(<<">","G","V">>))

\* a dispatcher called with an alias in upper case has written three commands
C1_Witness ==
  /\ call.op = "set_modulation_source"
  /\ call.arg = PyStr(<<"I","N","T">>)
  /\ Returned
  /\ Len(wire) = 3

\* C2: a write of __send_cmd is followed by a sleep of 100 ms or more before
\* the primitive returns, so the write after it comes 100 ms later or more; a
\* write of __send_cmd_resp is followed by no sleep, and the write after it
\* comes after the line read and the time the caller took, nothing more.
C2_SettleDelay ==
  /\ \A i \in 1..Len(wire) :
       /\ wire[i].after = "send_cmd" =>
            (wire[i].slept >= SEND_DELAY /\ wire[i].gap >= SEND_DELAY)
       /\ wire[i].after = "send_cmd_resp" =>
            (wire[i].slept = 0 /\ wire[i].gap = wire[i].read + wire[i].idle)
  /\ tx.prim = "send_cmd" => tx.slept >= SEND_DELAY
  /\ tx.prim = "send_cmd_resp" => tx.slept = 0

\* a command written right after a query that was answered at once, less than
\* 100 ms after it, and the refresh that follows it a late sleep after
C2_Witness ==
  /\ Len(wire) = 2
  /\ wire[1].after = "send_cmd_resp"
  /\ wire[1].gap < SEND_DELAY
  /\ wire[2].after = "send_cmd"
  /\ wire[2].gap > SEND_DELAY

\* C3: every write is one command and exactly one CR, its last byte.
C3_OneCommandPerWrite ==
  \A i \in 1..Len(wire) :
    LET d == wire[i].data IN
    /\ Len(d) >= 1
    /\ d[Len(d)] = 13
    /\ \A j \in 1..(Len(d) - 1) : d[j] # 13

\* C4: a dispatcher called with an alias, in any letter case, first writes the
\* code the command table gives for the alias.
C4_AliasCode ==
  \A t \in AliasTable :
    (DispatchedText /\ call.op = t[1] /\ InAnyCase(call.arg.chars, t[2])) =>
      /\ Returned
      /\ Len(wire) >= 1
      /\ wire[1].data = Sent(t[3])

\* the waveform dispatcher called with TRIANGLE has written the code of sine
C4_Witness ==
  /\ call.op = "set_modulation_wave_type"
  /\ call.arg = PyStr(<<"T","R","I","A","N","G","L","E">>)
  /\ Len(wire) >= 1
  /\ wire[1].data = Sent(<<">","S","M","W","0">>)

\* C5 as claimed: a dispatcher called with a text that is none of its aliases
\* writes nothing and logs a warning.
C5_NothingWritten ==
  Unrecognised => (Returned /\ wire = <<>> /\ OneWarning)

\* C5 as amended: a dispatcher called with a text that is none of its aliases
\* writes no setting command and logs a warning; set_vibration writes nothing
\* at all, each of the other five writes the '>GH' refresh and nothing else.
C5_NoSettingWritten ==
  Unrecognised =>
    /\ Returned
    /\ OneWarning
    /\ call.op = "set_vibration" => wire = <<>>
    /\ call.op \in RefreshingDispatchers =>
         (Len(wire) = 1 /\ wire[1].data = Sent(<<">","G","H">>))

\* set_ref_source called with an alias of another setting has written '>GH'
C5_Witness ==
  /\ call.op = "set_ref_source"
  /\ call.arg = PyStr(<<"m","i","c">>)
  /\ Len(wire) = 1
  /\ wire[1].data = Sent(<<">","G","H">>)
  /\ OneWarning

\* C6: the setters of modulation source, type and waveform and of the sweep
\* trigger, called with a name they do not know, send no setting command, log
\* a warning and still refresh: the call writes one '>GH' and nothing else,
\* and the settle delay follows it.
C6_RefreshAfterNoMatch ==
  (Unrecognised /\ call.op \notin {"set_ref_source", "set_vibration"}) =>
    /\ Returned
    /\ OneWarning
    /\ Len(wire) = 1
    /\ wire[1].data = Sent(<<">","G","H">>)
    /\ wire[1].prim = "send_cmd"
    /\ tx.prim = "send_cmd"
    /\ tx.slept >= SEND_DELAY

\* set_sweep_trigger called with an alias of another setting
C6_Witness ==
  /\ call.op = "set_sweep_trigger"
  /\ call.arg = PyStr(<<"i","n","t">>)
  /\ OneWarning
  /\ Len(wire) = 1
  /\ tx.slept >= SEND_DELAY

\* the bytes of each write of the call, in order
Datas == [i \in 1..Len(wire) |-> wire[i].data]

\* C7 as claimed: set_preset writes seven commands, the six settings and one
\* '>GH' at the end.
C7_SevenCommands ==
  call.op = "set_preset" =>
    Datas = << Sent(<<">","S","F","0">>), Sent(<<">","F","1","0","0","0","0","0","0","0","0","0">>), Sent(<<">","S","A","0">>),
               Sent(<<">","S","M","0">>), Sent(<<">","S","S","6">>), Sent(<<">","S","R","0">>), Sent(<<">","G","H">>) >>

\* C7 as amended: set_preset writes thirteen commands: RF off, frequency
\* default, amplitude default, modulation off, sweep off, reference source
\* internal, in this order, each followed by the '>GH' of its setter, and one
\* more '>GH' at the end.
C7_ThirteenCommands ==
  call.op = "set_preset" =>
    /\ Returned
    /\ Datas = << Sent(<<">","S","F","0">>), Sent(<<">","G","H">>), Sent(<<">","F","1","0","0","0","0","0","0","0","0","0">>), Sent(<<">","G","H">>),
                  Sent(<<">","S","A","0">>), Sent(<<">","G","H">>), Sent(<<">","S","M","0">>), Sent(<<">","G","H">>),
                  Sent(<<">","S","S","6">>), Sent(<<">","G","H">>), Sent(<<">","S","R","0">>), Sent(<<">","G","H">>),
                  Sent(<<">","G","H">>) >>

\* set_preset has returned after its thirteenth write, a '>GH' after a '>GH'
C7_Witness ==
  /\ call.op = "set_preset"
  /\ Returned
  /\ Len(wire) = 13
  /\ wire[12].data = Sent(<<">","G","H">>)
  /\ wire[13].data = Sent(<<">","G","H">>)

\* the write d is not the refresh
NotRefresh(d) == d # Sent(<<">","G","H">>)

\* the codes of the modulation and sweep parameters
SubParameterCodes ==
  { <<">","S","M","I">>, <<">","S","M","T">>, <<">","S","M","W">>, <<">","S","M","F">>, <<">","S","M","A">>, <<">","S","M","F","D">>, <<">","S","M","P","P">>, <<">","S","M","P","W">>,
    <<">","S","S","1">>, <<">","S","S","2">>, <<">","S","S","3">>, <<">","S","S","4">>, <<">","S","S","7">> }

EncodedSetters ==
  { "set_frequency", "set_modulation_frequency", "set_modulation_fm_deviation",
    "set_modulation_pulse_period_us", "set_modulation_pulse_width_us",
    "set_sweep_start_frequency", "set_sweep_stop_frequency",
    "set_sweep_step_frequency", "set_sweep_dwell_time_us" }

\* the parameter of the first command written: the bytes after the code of
\* the setter, up to the CR
Parameter ==
  SubSeq(wire[1].data, Len(CodeOf[call.op]) + 1, Len(wire[1].data) - 1)

\* the bytes b are decimal digits
AllDigits(b) == Len(b) >= 1 /\ \A i \in 1..Len(b) : b[i] \in 48..57

\* the number the decimal digits b denote
RECURSIVE DigitsValue(_)
DigitsValue(b) ==
  IF b = <<>> THEN 0
  ELSE 10 * DigitsValue(SubSeq(b, 1, Len(b) - 1)) + (b[Len(b)] - 48)

\* the bytes b are an integer in decimal: digits, after a minus sign if it is
\* below zero; no exponent, no fraction, no plus sign
IsDecimalInteger(b) ==
  \/ AllDigits(b)
  \/ Len(b) >= 2 /\ b[1] = 45 /\ AllDigits(Tail(b)) /\ DigitsValue(Tail(b)) > 0

DecimalValue(b) ==
  IF b[1] = 45 THEN 0 - DigitsValue(Tail(b)) ELSE DigitsValue(b)

\* v is num/den cut toward zero
IsTruncation(v, num, den) ==
  /\ num >= 0 => (v >= 0 /\ v * den <= num /\ num < (v + 1) * den)
  /\ num < 0 => (v <= 0 /\ v * den >= num /\ num > (v - 1) * den)

\* C9: a setter whose parameter goes through the numeric encoder, called with
\* an int or a finite float, writes after its code the decimal digits of the
\* argument cut toward zero, with no exponent, fraction or change of sign.
C9_TruncatedDigits ==
  ( /\ call.op \in EncodedSetters
    /\ call.arg.type \in {"int", "float"}
    /\ call.arg.den # 0 ) =>
      /\ Returned
      /\ Len(wire) >= 1
      /\ StartsWith(wire[1].data, encode(CodeOf[call.op]))
      /\ wire[1].data[Len(wire[1].data)] = 13
      /\ IsDecimalInteger(Parameter)
      /\ IsTruncation(DecimalValue(Parameter), call.arg.num, call.arg.den)

\* set_frequency(-100.7) has written '>F-100'
C9_Witness ==
  /\ call.op = "set_frequency"
  /\ call.arg = PyFloat(-1007, 10)
  /\ Len(wire) >= 1
  /\ wire[1].data = Sent(<<">","F","-","1","0","0">>)

Queries == { <<"get_temperature", <<">","R","T">>>>, <<"get_current", <<">","R","C">>>> }

Queried == call.op \in {q[1] : q \in Queries}

\* the bytes b are all whitespace
AllBlank(b) == \A i \in 1..Len(b) : b[i] \in {9, 10, 13, 32}

\* the text t is the line b without the whitespace at its two ends
IsTrimOf(t, b) ==
  \E i \in 0..Len(b) : \E j \in i..Len(b) :
    /\ AllBlank(SubSeq(b, 1, i))
    /\ AllBlank(SubSeq(b, j + 1, Len(b)))
    /\ j > i => (b[i + 1] \notin {9, 10, 13, 32} /\ b[j] \notin {9, 10, 13, 32})
    /\ Len(t) = j - i
    /\ \A k \in 1..Len(t) : Ord(t[k]) = b[i + k]

\* C11: get_temperature writes '>RT' and a CR, get_current '>RC' and a CR,
\* and nothing else; each returns the line it read without the whitespace
\* at its two ends, a text that trimming leaves as it is.
C11_QueryReturnsTrimmedLine ==
  \A q \in Queries :
    call.op = q[1] =>
      /\ Datas = <<Sent(q[2])>>
      /\ raised = "none"
      /\ ret.type = "str"
      /\ IsTrimOf(ret.chars, call.line.data)
      /\ strip(ret.chars) = ret.chars

C13_SameCallSameBytes ==
  /\ (ref.age >= 1 /\ ref.op = call.op /\ ref.arg = call.arg) =>
       Datas = ref.datas
  /\ call.op \notin {"__init__", "__del__"} =>
       (serial_link = "open" /\ closes = 0)

\* set_frequency(100.7) again, right after a query, other calls ago
C13_Witness ==
  /\ ref.age = 2
  /\ ref.op = "set_frequency"
  /\ call.op = "set_frequency"
  /\ call.arg = PyFloat(1007, 10)
  /\ ref.arg = call.arg
  /\ Len(wire) = 2
  /\ wire[1].after = "send_cmd_resp"

\* C14: when the port cannot be opened nothing is ever written; on every path
\* __del__ completes and the transport has been closed exactly once; bytes
\* are written only while the transport is open.
C14_ClosedOnceOnEveryPath ==
  /\ serial_link = "unset" => (wire = <<>> /\ tx.prim = "none")
  /\ wire # <<>> => serial_link = "open"
  /\ call.op = "__del__" => (raised = "none" /\ closes = 1)

\* C15: the frequency command of set_preset is '>F100000000', 100 MHz.
C15_Preset100MHz ==
  call.op = "set_preset" =>
    \E i \in 1..Len(wire) : wire[i].data = Sent(<<">","F","1","0","0","0","0","0","0","0","0">>)

\* C16: when a call that wrote something returns, the last command written is
\* '>GH'; but '>GV' for vibrate_30ms, and '>RT' or '>RC' for a query.
C16_HomeAfterMutation ==
  /\ (Returned /\ wire # <<>> /\ ~Queried /\ call.op # "vibrate_30ms") =>
       wire[Len(wire)].data = Sent(<<">","G","H">>)
  /\ (Returned /\ call.op = "vibrate_30ms") =>
       (wire # <<>> /\ wire[Len(wire)].data = Sent(<<">","G","V">>))
  /\ \A q \in Queries :
       call.op = q[1] => (wire # <<>> /\ wire[Len(wire)].data = Sent(q[2]))

\* set_vibration('OFF') has returned with '>GH' as the last command
C16_Witness ==
  /\ call.op = "set_vibration"
  /\ call.arg = PyStr(<<"O","F","F">>)
  /\ Returned
  /\ Len(wire) = 2
  /\ wire[1].data = Sent(<<">","S","V","0">>)
  /\ wire[2].data = Sent(<<">","G","H">>)

\* the setters that write str() of their argument
PlainSetters == {"set_amplitude", "set_modulation_am_depth"}

\* the bytes b are the number num/den written with one decimal place
IsOneDecimalPlace(b, num, den) ==
  LET a == IF num < 0 THEN 0 - num ELSE num
      u == IF num < 0 THEN Tail(b) ELSE b
  IN /\ num < 0 => (Len(b) >= 1 /\ b[1] = 45)
     /\ Len(u) >= 3
     /\ u[Len(u) - 1] = 46
     /\ AllDigits(SubSeq(u, 1, Len(u) - 2))
     /\ u[Len(u)] \in 48..57
     /\ LET w == DigitsValue(SubSeq(u, 1, Len(u) - 2))
            r == a - w * den
        IN r >= 0 /\ r < den /\ (u[Len(u)] - 48) * den = r * 10

\* C17 as claimed: set_amplitude and set_modulation_am_depth encode their
\* parameter like the other setters: a float is cut toward zero, a text is
\* written as 0.
C17_EncodedEverywhere ==
  (Returned /\ call.op \in PlainSetters) =>
    /\ (call.arg.type = "float" /\ call.arg.den # 0) =>
         /\ IsDecimalInteger(Parameter)
         /\ IsTruncation(DecimalValue(Parameter), call.arg.num, call.arg.den)
    /\ call.arg.type = "str" => Parameter = <<48>>

\* C17 as amended: the encoding rule holds for the setters that go through
\* __num_to_str only; set_amplitude and set_modulation_am_depth write their
\* argument as str() gives it: an int as its decimal digits, a float with its
\* decimal place, a text unchanged.
C17_PlainText ==
  (call.op \in PlainSetters) =>
    /\ Returned
    /\ Len(wire) = 2
    /\ StartsWith(wire[1].data, encode(CodeOf[call.op]))
    /\ wire[1].data[Len(wire[1].data)] = 13
    /\ call.arg.type = "int" =>
         /\ IsDecimalInteger(Parameter)
         /\ DecimalValue(Parameter) = call.arg.num
    /\ (call.arg.type = "float" /\ call.arg.den # 0) =>
         IsOneDecimalPlace(Parameter, call.arg.num, call.arg.den)
    /\ call.arg.type = "str" => Parameter = encode(call.arg.chars)

\* set_amplitude(100.7) has written '>SA100.7'
C17_Witness ==
  /\ call.op = "set_amplitude"
  /\ call.arg = PyFloat(1007, 10)
  /\ Len(wire) = 2
  /\ wire[1].data = Sent(<<">","S","A","1","0","0",".","7">>)

\* the text s is a number with a unit after it
UnitSuffixed(s) ==
  /\ Len(s) >= 2
  /\ Ord(s[1]) \in 48..57
  /\ Ord(s[Len(s)]) \in (65..90) \cup (97..122)

\* the log of the last call holds a warning
Warned == \E i \in 1..Len(log) : log[i].level = "WARNING"

\* C18: a dispatcher called with a name it does not know, and an encoded
\* setter called with a number that has a unit after it, both log a warning
\* and return.
C18_WarningForBothKinds ==
  /\ Unrecognised => (raised = "none" /\ Warned)
  /\ ( /\ call.op \in EncodedSetters
       /\ call.arg.type = "str"
       /\ UnitSuffixed(call.arg.chars) ) => (raised = "none" /\ Warned)

\* C19: a query returns a text whatever the device answers, the empty text
\* when the read timed out with nothing, and writes once.
C19_QueryNeverRaises ==
  Queried =>
    /\ raised = "none"
    /\ ret.type = "str"
    /\ call.line.data = <<>> => ret.chars = <<>>
    /\ Len(wire) = 1

====
